---- MODULE Spec2Model ----
(***************************************************************************)
(* A model of the Library storage engine of the books repository: the      *)
(* relational tables, the full-text table, the files on disk, and the      *)
(* operations ImportBook, UpdateBook, MergeBooks and DeleteFile.           *)
(*                                                                         *)
(* A Go string is modelled as a sequence of tokens (words and the          *)
(* separators that strings.Join and + put between them), so that           *)
(* concatenation is concatenation.  A path is a record: the directory it   *)
(* lives in, the rendered stem, the extension, and the number n of the     *)
(* " (n)" suffix GetUniqueName inserted before the extension (0: none).    *)
(***************************************************************************)
EXTENDS Integers, Sequences, FiniteSets, TLC

VARIABLES
  db,    \* the committed store: one set of rows per table
  disk,  \* the paths at which a file exists
  last,  \* the last call: its operation, arguments and result
  nops   \* the number of calls made so far

vars == <<db, disk, last, nops>>

(* ------------------------------ bounds -------------------------------- *)

\* Number of distinct content hashes among the files offered for import.
NumHashes == 2
\* Number of files offered for import (input k has hash ((k-1) % NumHashes)+1).
NumInputs == 3
\* Longest list of book IDs passed to MergeBooks.
MaxMerge == 2
\* Largest row ID a caller names.
MaxID == 2
\* Number of calls in a behaviour of Spec.
MaxOps == 3
\* Number of calls in a behaviour of SpecDeep.
MaxDeepOps == 5
\* The number of calls in a behaviour of SpecDelete.
MaxDeleteOps == 4

\* Number of steps in a behaviour of SpecNames.
MaxNameOps == 4
\* Largest suffix of a name someone else creates.
MaxSuffix == 2
\* Number of calls in a behaviour of SpecMove.
MaxMoveOps == 2
\* Largest offset, limit and moreResultsLimit passed to SearchPaged.
MaxPage == 2
\* Longest argument list passed to the delete commands.
MaxArgs == 2

Titles == {"T1", "T2"}
SeriesNames == {"", "S"}
AuthorLists == {<<>>, <<"A">>, <<"A", "B">>, <<"B", "A">>}

\* The inputs of SpecDeep.
DeepTitles == {"T1"}
DeepAuthorLists == {<<"A">>, <<"A", "B">>}

\* The paths passed to GetUniqueName: without and with an extension, with a
\* dot in a directory name only, and with a leading dot.
Names ==
  {<<"a">>, <<"a", ".", "e">>, <<"d", ".", "d", "/", "a">>, <<".", "e">>}

\* The command-line arguments, character by character: numerals with and
\* without a sign, of value zero and not, and strings that are no numerals.
ArgStrings ==
  {<<>>, <<"7">>, <<"0">>, <<"1", "2">>, <<"-", "3">>, <<"+", "0">>, <<"x">>,
   <<"7", "x">>, <<"-">>}

\* The values of the filename flag: not set, and set.
FilenameFlags == {<<>>, <<"f">>}

\* The one-word queries passed to SearchPaged.
SearchTerms == {"A", "T1", "pdf"}

\* The row IDs a caller may name.
IDs == 1..MaxID

\* The tags the title of input k carries.
TagsOf(k) == IF k = 1 THEN <<"x">> ELSE IF k = 2 THEN <<"x", "y">> ELSE <<>>

SeqsUpTo(S, n) == UNION {[1..k -> S] : k \in 0..n}

Inputs == 1..NumInputs

HashOf(k) == ((k - 1) % NumHashes) + 1

ExtOf(k) == IF k <= NumHashes THEN "epub" ELSE "pdf"

SourceOf(k) == IF k = 1 THEN "web" ELSE ""

\* The absolute path of input k, outside the library root.
InPath(k) == [dir |-> "in", stem |-> <<"file">>, ext |-> ExtOf(k), n |-> k]

(* ------------------------------ helpers ------------------------------- *)

MaxOf(S) == IF S = {} THEN 0 ELSE CHOOSE x \in S : \A y \in S : y <= x

MinOf(S) == CHOOSE x \in S : \A y \in S : x <= y

RECURSIVE SortedSeq(_)
SortedSeq(S) == IF S = {} THEN <<>> ELSE <<MinOf(S)>> \o SortedSeq(S \ {MinOf(S)})

\* A one-word Go string; the empty string is the empty sequence.
Str(w) == IF w = "" THEN <<>> ELSE <<w>>

\* strings.Join(ss, sep) for a sequence ss of strings.
RECURSIVE Join(_, _)
Join(ss, sep) ==
  IF ss = <<>> THEN <<>>
  ELSE IF Len(ss) = 1 THEN ss[1]
  ELSE ss[1] \o sep \o Join(Tail(ss), sep)

Strs(ws) == [i \in DOMAIN ws |-> Str(ws[i])]

RECURSIVE Flatten(_)
Flatten(ss) == IF ss = <<>> THEN <<>> ELSE ss[1] \o Flatten(Tail(ss))

Row(T, id) == CHOOSE r \in T : r.id = id

Ids(T) == {r.id : r \in T}

\* SQLite gives a new row of an "integer primary key" table the rowid max+1.
NextRowid(T) == MaxOf(Ids(T)) + 1

(* --------------------------- the relational store ---------------------- *)

EmptyDB ==
  [books |-> {}, files |-> {}, authors |-> {}, books_authors |-> {},
   tags |-> {}, files_tags |-> {}, books_fts |-> {}]

\* A schema whose files table lacks the unique constraints.
FilesUniqueViolated_Undeclared(files, row) == FALSE

\* files.filename and files.hash are declared unique.
FilesUniqueViolated(files, row) ==
  \E f \in files : f.id # row.id /\ (f.hash = row.hash \/ f.filename = row.filename)

\* A schema without "on delete cascade" (or a connection on which foreign
\* keys are off): the dependent rows stay.
Cascade_Off(d) == d

\* "on delete cascade" of the schema, applied after rows were deleted.
Cascade(d) ==
  LET files == {f \in d.files : f.book_id \in Ids(d.books)}
      ba == {l \in d.books_authors :
               l.book_id \in Ids(d.books) /\ l.author_id \in Ids(d.authors)}
      ft == {l \in d.files_tags :
               l.file_id \in Ids(files) /\ l.tag_id \in Ids(d.tags)}
  IN [d EXCEPT !.files = files, !.books_authors = ba, !.files_tags = ft]

\* A comparison that ignores the order of the names.
authorsEqual_Unordered(a, b) ==
  {a[i] : i \in DOMAIN a} = {b[i] : i \in DOMAIN b}

authorsEqual(a, b) ==
  /\ Len(a) = Len(b)
  /\ \A i \in 1..Len(a) : a[i] = b[i]

\* A query that orders the names by the authors' ids.
getAuthorsByBookIds_ByAuthorID(d, ids) ==
  LET rows == {l \in d.books_authors : l.book_id \in ids}
      aids(b) == SortedSeq({l.author_id : l \in {r \in rows : r.book_id = b}})
  IN [b \in {l.book_id : l \in rows} |->
        [k \in DOMAIN aids(b) |-> Row(d.authors, aids(b)[k]).name]]

\* The map book ID -> author names in the order of the link rows' ids; a book
\* without link rows has no entry in the map.
getAuthorsByBookIds(d, ids) ==
  LET rows == {l \in d.books_authors : l.book_id \in ids}
      lids(b) == SortedSeq({l.id : l \in {r \in rows : r.book_id = b}})
  IN [b \in {l.book_id : l \in rows} |->
        [k \in DOMAIN lids(b) |->
           Row(d.authors, Row(d.books_authors, lids(b)[k]).author_id).name]]

getTagsByFileIds(d, ids) ==
  LET rows == {l \in d.files_tags : l.file_id \in ids}
      lids(f) == SortedSeq({l.id : l \in {r \in rows : r.file_id = f}})
  IN [f \in {l.file_id : l \in rows} |->
        [k \in DOMAIN lids(f) |->
           Row(d.tags, Row(d.files_tags, lids(f)[k]).tag_id).name]]

\* The BookFile values of the file rows ids, in rowid order.
getFilesByID(d, ids) ==
  LET tagMap == getTagsByFileIds(d, ids)
      fids == SortedSeq({f.id : f \in {r \in d.files : r.id \in ids}})
  IN [k \in DOMAIN fids |->
        LET f == Row(d.files, fids[k])
        IN [ID |-> f.id, Extension |-> f.extension,
            OriginalFilename |-> f.original_filename,
            CurrentFilename |-> f.filename, Hash |-> f.hash,
            Source |-> f.source,
            Tags |-> IF f.id \in DOMAIN tagMap THEN tagMap[f.id] ELSE <<>>]]

getFilesByBookIds(d, ids) ==
  [b \in {f.book_id : f \in {r \in d.files : r.book_id \in ids}} |->
     getFilesByID(d, {f.id : f \in {r \in d.files : r.book_id = b}})]

\* The Book values of the book rows ids, in rowid order.
getBooksByID(d, ids) ==
  LET bids == SortedSeq({b.id : b \in {r \in d.books : r.id \in ids}})
      authorMap == getAuthorsByBookIds(d, ids)
      fileMap == getFilesByBookIds(d, ids)
  IN [k \in DOMAIN bids |->
        LET b == Row(d.books, bids[k])
        IN [ID |-> b.id, Series |-> b.series, Title |-> b.title,
            Authors |-> IF b.id \in DOMAIN authorMap THEN authorMap[b.id] ELSE <<>>,
            Files |-> IF b.id \in DOMAIN fileMap THEN fileMap[b.id] ELSE <<>>]]

\* The IDs the lookup may return: it walks a map, so any matching book with
\* at least one author link may come first.  Empty: not found.
getBookIDByTitleAndAuthors(d, title, authors) ==
  LET ids == {b.id : b \in {r \in d.books : r.title = title}}
      authorMap == getAuthorsByBookIds(d, ids)
  IN {b \in DOMAIN authorMap : authorsEqual(authors, authorMap[b])}

\* Find or create the author, then "insert or ignore" the link.
insertAuthor(d, author, bookID) ==
  LET known == {a \in d.authors : a.name = author}
      authorID == IF known = {} THEN NextRowid(d.authors)
                  ELSE (CHOOSE a \in known : TRUE).id
      authors == IF known = {} THEN d.authors \cup {[id |-> authorID, name |-> author]}
                 ELSE d.authors
      linked == \E l \in d.books_authors : l.book_id = bookID /\ l.author_id = authorID
      links == IF linked THEN d.books_authors
               ELSE d.books_authors \cup
                      {[id |-> NextRowid(d.books_authors), book_id |-> bookID,
                        author_id |-> authorID]}
  IN [d EXCEPT !.authors = authors, !.books_authors = links]

RECURSIVE insertAuthors(_, _, _)
insertAuthors(d, authors, bookID) ==
  IF authors = <<>> THEN d
  ELSE insertAuthors(insertAuthor(d, Head(authors), bookID), Tail(authors), bookID)

\* Find or create the tag, then "insert or ignore" the link.
insertTag(d, tag, fileID) ==
  LET known == {t \in d.tags : t.name = tag}
      tagID == IF known = {} THEN NextRowid(d.tags)
               ELSE (CHOOSE t \in known : TRUE).id
      tags == IF known = {} THEN d.tags \cup {[id |-> tagID, name |-> tag]}
              ELSE d.tags
      linked == \E l \in d.files_tags : l.file_id = fileID /\ l.tag_id = tagID
      links == IF linked THEN d.files_tags
               ELSE d.files_tags \cup
                      {[id |-> NextRowid(d.files_tags), file_id |-> fileID,
                        tag_id |-> tagID]}
  IN [d EXCEPT !.tags = tags, !.files_tags = links]

RECURSIVE insertTags(_, _, _)
insertTags(d, tags, fileID) ==
  IF tags = <<>> THEN d
  ELSE insertTags(insertTag(d, Head(tags), fileID), Tail(tags), fileID)

(* ------------------------------ search index --------------------------- *)

\* A document field that is replaced by the new value instead of growing.
appendField_Replaces(old, new) == new

\* old+" "+new, the value an import into an existing book gives a field.
appendField(old, new) == old \o <<" ">> \o new

\* The outcome of indexBookInSearch: err is "" on success.
indexBookInSearch(d, book, createNew) ==
  LET bf == book.Files[1]
      joinedTags == Join(Strs(bf.Tags), <<" ">>)
  IN IF createNew
     THEN LET exts == [i \in DOMAIN book.Files |-> Str(book.Files[i].Extension)]
              srcs == [i \in DOMAIN book.Files |-> Str(book.Files[i].Source)]
              doc == [docid |-> book.ID,
                      author |-> Join(Strs(book.Authors), <<" & ">>),
                      series |-> Str(book.Series),
                      title |-> Str(book.Title),
                      extension |-> Join(exts, <<" ">>),
                      tags |-> Join(Flatten([i \in DOMAIN book.Files |->
                                               Strs(book.Files[i].Tags)]), <<" ">>),
                      source |-> Join(srcs, <<" ">>)]
          IN IF \E x \in d.books_fts : x.docid = book.ID
             THEN [err |-> "fts insert", db |-> d]
             ELSE [err |-> "", db |-> [d EXCEPT !.books_fts = @ \cup {doc}]]
     ELSE LET rows == {x \in d.books_fts : x.docid = book.ID}
          IN IF rows = {}
             THEN [err |-> "not in fts", db |-> d]
             ELSE LET old == CHOOSE x \in rows : TRUE
                      new == [old EXCEPT !.tags = appendField(@, joinedTags),
                                         !.extension = appendField(@, Str(bf.Extension)),
                                         !.source = appendField(@, Str(bf.Source))]
                  IN [err |-> "",
                      db |-> [d EXCEPT !.books_fts = (@ \ {old}) \cup {new}]]

(* ------------------------------ filesystem ----------------------------- *)

\* The name the output template renders for a file of a book: the template
\* of this model is "title - authors.extension", relative to the root.
Filename(book, bf) ==
  [dir |-> "lib", stem |-> <<book.Title>> \o book.Authors,
   ext |-> bf.Extension, n |-> 0]

\* Model names are far shorter than the length limit.
TruncateFilename(fn) == fn

\* A name that is not checked against the filesystem.
GetUniqueName_Unchecked(dk, f) == f

\* f itself when nothing is at f, otherwise f with the first free " (i)".
GetUniqueName(dk, f) ==
  IF f \notin dk THEN f
  ELSE [f EXCEPT !.n = MinOf({i \in 1..(Cardinality(dk) + 1) :
                                [f EXCEPT !.n = i] \notin dk})]

\* The faults of the filesystem calls of one move or copy: whether os.Rename
\* fails, where copyFile fails ("open", "create", "copy" or "none"), and
\* whether os.Remove of the source fails.
FileFaults(rename, copy, remove) ==
  [rename |-> rename, copy |-> copy, remove |-> remove]

\* The steps at which copyFile may fail.
CopyFaults == {"open", "create", "copy"}

\* A copy that takes the source away once it is done.
copyFile_RemovesSource(fs, src, dst, fault) ==
  IF src \notin fs \/ fault # "none"
  THEN [err |-> "Copy file", disk |-> fs, wrote |-> FALSE]
  ELSE [err |-> "", disk |-> (fs \ {src}) \cup {dst}, wrote |-> TRUE]

\* The outcome of copyFile(src, dst): a copy that fails after os.Create
\* leaves a file at dst.  wrote says whether dst was created or replaced.
copyFile(fs, src, dst, fault) ==
  IF src \notin fs \/ fault = "open"
  THEN [err |-> "Copy file", disk |-> fs, wrote |-> FALSE]
  ELSE IF fault = "create" THEN [err |-> "Copy file", disk |-> fs, wrote |-> FALSE]
  ELSE IF fault = "copy"
       THEN [err |-> "Copy file", disk |-> fs \cup {dst}, wrote |-> TRUE]
  ELSE [err |-> "", disk |-> fs \cup {dst}, wrote |-> TRUE]

\* A move that gives up when the rename fails.
moveFile_NoFallback(fs, src, dst, faults) ==
  IF src \in fs /\ ~faults.rename
  THEN [err |-> "", disk |-> (fs \ {src}) \cup {dst}, wrote |-> TRUE]
  ELSE [err |-> "rename", disk |-> fs, wrote |-> FALSE]

\* The outcome of moveFile(src, dst): os.Rename fails when src is missing or
\* the fault says so.
moveFile(fs, src, dst, faults) ==
  IF src \in fs /\ ~faults.rename
  THEN [err |-> "", disk |-> (fs \ {src}) \cup {dst}, wrote |-> TRUE]
  ELSE LET c == copyFile(fs, src, dst, faults.copy)
       IN IF c.err # "" THEN c
          ELSE IF faults.remove THEN c
          ELSE [c EXCEPT !.disk = @ \ {src}]

\* The filesystem faults an injected fault mode stands for: "move" fails
\* the rename and the copy, "rename" the rename only, "remove" the rename and
\* the removal of the source, "copy" the rename and the copy once dst exists.
FaultsOf(mode) ==
  IF mode = "move" THEN FileFaults(TRUE, "open", FALSE)
  ELSE IF mode = "rename" THEN FileFaults(TRUE, "none", FALSE)
  ELSE IF mode = "remove" THEN FileFaults(TRUE, "none", TRUE)
  ELSE IF mode = "copy" THEN FileFaults(TRUE, "copy", FALSE)
  ELSE FileFaults(FALSE, "none", FALSE)

\* The outcome of moving or copying src to dst; mode is the fault injected
\* into the filesystem calls.  overwritten holds dst when a file was at dst
\* and the call wrote there.
moveOrCopyFile(dk, src, dst, move, mode) ==
  LET r == IF move THEN moveFile(dk, src, dst, FaultsOf(mode))
           ELSE copyFile(dk, src, dst, FaultsOf(mode).copy)
  IN [err |-> IF r.err = "" THEN "" ELSE "move or copy file", disk |-> r.disk,
      overwritten |-> IF r.wrote /\ dst \in dk THEN {dst} ELSE {}]

\* An outcome with the paths ps added to those it overwrote.
Overwrote(r, ps) == [r EXCEPT !.overwritten = @ \cup ps]

\* The loop of updateFilenames from file number i on.
RECURSIVE updateFilenamesFrom(_, _, _, _, _, _)
updateFilenamesFrom(d, dk, book, i, move, fail) ==
  LET out(err, dbv, dkv, ps) ==
        [err |-> err, db |-> dbv, disk |-> dkv, overwritten |-> ps]
      bf == book.Files[i]
      newFn == TruncateFilename(Filename(book, bf))
      \* What follows moveOrCopyFile(cf, newPath, move), whose outcome is mv.
      moved(newPath, mv) ==
        LET row == [Row(d.files, bf.ID) EXCEPT !.filename = newPath]
        IN IF mv.err # "" THEN out(mv.err, d, mv.disk, mv.overwritten)
           ELSE IF fail = "update"
                THEN out("updating file", d, mv.disk, mv.overwritten)
           ELSE IF bf.ID \notin Ids(d.files)
                THEN Overwrote(
                       updateFilenamesFrom(d, mv.disk, book, i + 1, move, fail),
                       mv.overwritten)
           ELSE IF FilesUniqueViolated(d.files, row)
                THEN out("UNIQUE constraint failed: files.filename", d, mv.disk,
                         mv.overwritten)
           ELSE Overwrote(
                  updateFilenamesFrom(
                    [d EXCEPT !.files = (@ \ {Row(d.files, bf.ID)}) \cup {row}],
                    mv.disk, book, i + 1, move, fail),
                  mv.overwritten)
      \* What follows GetUniqueName, which returned newPath.
      named(newPath) ==
        moved(newPath, moveOrCopyFile(dk, bf.CurrentFilename, newPath, move, fail))
  IN IF i > Len(book.Files) THEN out("", d, dk, {})
     ELSE IF bf.ID = 0 THEN out("ID cannot be 0", d, dk, {})
     ELSE IF fail = "filename" THEN out("get new filename", d, dk, {})
     ELSE IF bf.CurrentFilename = newFn
          THEN updateFilenamesFrom(d, dk, book, i + 1, move, fail)
     ELSE named(GetUniqueName(dk, newFn))

updateFilenames(d, dk, book, move, fail) ==
  updateFilenamesFrom(d, dk, book, 1, move, fail)

\* A path no file row names.
NoPath == [dir |-> "lib", stem |-> <<>>, ext |-> "", n |-> 0]

\* The paths passed to moveFile.
Paths == {InPath(k) : k \in Inputs}

(* ------------------------------ ImportBook ----------------------------- *)

\* The steps of ImportBook at which an injected store or filesystem fault
\* makes it fail.
ImportFaults ==
  {"book", "author", "file", "tag", "index", "filename", "move", "update", "commit"}

\* The record the import command hands to ImportBook for input file k.
ImportRecord(title, authors, series, tags, k) ==
  [ID |-> 0, Title |-> title, Authors |-> authors, Series |-> series,
   Files |-> <<[ID |-> 0, Extension |-> ExtOf(k), OriginalFilename |-> InPath(k),
                CurrentFilename |-> InPath(k), Hash |-> HashOf(k),
                Source |-> SourceOf(k), Tags |-> tags]>>]

\* The record a caller builds from the input files ks, in that order: ks is
\* empty for a record without files.
ImportRecordOf(title, authors, series, ks) ==
  [ID |-> 0, Title |-> title, Authors |-> authors, Series |-> series,
   Files |-> [i \in DOMAIN ks |->
                ImportRecord(title, authors, series, TagsOf(ks[i]), ks[i]).Files[1]]]

\* A check that lets a record with several files through.
hasOneFile_OrMore(book) == Len(book.Files) >= 1

\* Whether the record passes the check ImportBook makes before it opens a
\* transaction.
hasOneFile(book) == Len(book.Files) = 1

\* An import that does not look for the hash among the stored files.
DuplicateFiles_Unchecked(d, hash) == {}

\* The file rows "select id from files where hash=?" returns.
DuplicateFiles(d, hash) == {f \in d.files : f.hash = hash}

\* The outcome of ImportBook(book, tmpl, move) in store d and filesystem dk:
\* existing is the ID the title-and-authors lookup returned (0: not found),
\* fail the injected fault ("none": no fault).  db is the transaction's view
\* when the call ended, kept only if err is ""; began says whether the call
\* opened a transaction.
ImportBookTx(d, dk, book, move, fail, existing) ==
  LET bf == book.Files[1]
      dup == DuplicateFiles(d, bf.Hash)
      found == existing # 0
      bookID == IF found THEN existing ELSE NextRowid(d.books)
      d1 == IF found THEN d
            ELSE insertAuthors(
                   [d EXCEPT !.books = @ \cup
                      {[id |-> bookID, series |-> book.Series, title |-> book.Title]}],
                   book.Authors, bookID)
      fileID == NextRowid(d1.files)
      frow == [id |-> fileID, book_id |-> bookID, extension |-> bf.Extension,
               original_filename |-> bf.OriginalFilename,
               filename |-> bf.CurrentFilename, hash |-> bf.Hash,
               source |-> bf.Source]
      d2 == [d1 EXCEPT !.files = @ \cup {frow}]
      d3 == insertTags(d2, bf.Tags, fileID)
      book2 == [book EXCEPT !.ID = bookID, !.Files[1].ID = fileID]
      out(err, errID, dbv, dkv, ps) ==
        [err |-> err, errID |-> errID, db |-> dbv, disk |-> dkv,
         overwritten |-> ps, began |-> TRUE,
         found |-> found, bookID |-> bookID, fileID |-> fileID]
      \* What follows updateFilenames, whose outcome is uf.
      renamed(uf) ==
        IF uf.err # "" THEN out(uf.err, 0, uf.db, uf.disk, uf.overwritten)
        ELSE IF fail = "commit"
             THEN out("import book", 0, uf.db, uf.disk, uf.overwritten)
        ELSE out("", 0, uf.db, uf.disk, uf.overwritten)
      \* What follows indexBookInSearch, whose outcome is ix.
      indexed(ix) ==
        IF ix.err # "" THEN out("index book in search", 0, ix.db, dk, {})
        ELSE renamed(updateFilenames(ix.db, dk, book2, move, fail))
  IN IF ~hasOneFile(book)
     THEN [err |-> "Book to import must contain only one file", errID |-> 0,
           db |-> d, disk |-> dk, overwritten |-> {}, began |-> FALSE,
           found |-> FALSE, bookID |-> 0, fileID |-> 0]
     ELSE IF dup # {}
          THEN out("duplicate", (CHOOSE f \in dup : TRUE).id, d, dk, {})
     ELSE IF ~found /\ fail = "book" THEN out("Insert new book", 0, d, dk, {})
     ELSE IF ~found /\ book.Authors # <<>> /\ fail = "author"
          THEN out("inserting author", 0, d1, dk, {})
     ELSE IF fail = "file" \/ FilesUniqueViolated(d1.files, frow)
          THEN out("Inserting book file into the db", 0, d1, dk, {})
     ELSE IF bf.Tags # <<>> /\ fail = "tag" THEN out("inserting tag", 0, d3, dk, {})
     ELSE IF fail = "index" THEN out("index book in search", 0, d3, dk, {})
     ELSE indexed(indexBookInSearch(d3, book2, ~found))

\* An error path that returns without rolling the transaction back, so that
\* what it wrote stays.
Commit_WithoutRollback(d, r) == r.db

\* A transaction that ends in an error is rolled back.
Commit(d, r) == IF r.err = "" THEN r.db ELSE d

\* What last records of a call: the operation, its result, and the rows and
\* arguments it was about.
Call(op, err, errID, bookID, fileID, found, arg) ==
  [op |-> op, err |-> err, errID |-> errID, bookID |-> bookID,
   fileID |-> fileID, found |-> found, arg |-> arg]

\* What last records of a call that may move or copy files, besides the
\* fields of Call: the paths it wrote to although a file was there.
FileCall(c, overwritten) == c @@ [overwritten |-> overwritten]

\* What last records of an import besides: the path the file was offered
\* at, whether it was to be moved, and the injected fault.
ImportCall(c, src, move, fail) == c @@ [src |-> src, move |-> move, fail |-> fail]

\* The import command stats and hashes the file before it calls ImportBook,
\* so the files of the record exist when the call is made.
ImportBook(book, move, fail) ==
  /\ \A i \in DOMAIN book.Files : book.Files[i].OriginalFilename \in disk
  /\ LET matches == getBookIDByTitleAndAuthors(db, book.Title, book.Authors)
     IN \E existing \in (IF matches = {} THEN {0} ELSE matches) :
          LET r == ImportBookTx(db, disk, book, move, fail, existing)
          IN /\ db' = Commit(db, r)
             /\ disk' = r.disk
             /\ last' = ImportCall(
                          FileCall(
                            IF r.err = ""
                            THEN Call("import", "", 0, r.bookID, r.fileID, r.found,
                                      [title |-> book.Title, authors |-> book.Authors,
                                       move |-> move])
                            ELSE Call("import", r.err, r.errID, 0, 0, FALSE,
                                      [hash |-> IF book.Files = <<>> THEN 0
                                                ELSE book.Files[1].Hash,
                                       files |-> Len(book.Files)]),
                            r.overwritten),
                          IF book.Files = <<>> THEN NoPath
                          ELSE book.Files[1].OriginalFilename, move, fail)

\* The calls of ImportBook with a record of no file or of two files.
ImportRecords ==
  \E title \in DeepTitles, authors \in DeepAuthorLists, move \in BOOLEAN,
     ks \in {<<>>} \cup (Inputs \X Inputs) :
    ImportBook(ImportRecordOf(title, authors, "S", ks), move, "none")

\* The calls of ImportBook of one of the classes cs: a class gives the titles,
\* author lists, series, modes and faults its calls draw from.
Import(cs) ==
  \E c \in cs :
    \E k \in Inputs, title \in c.titles, authors \in c.authorLists,
       series \in c.seriesNames, move \in c.moves, fail \in c.faults :
      ImportBook(ImportRecord(title, authors, series, TagsOf(k), k), move, fail)

(* ------------------------------ UpdateBook ----------------------------- *)

\* A check that compares the series even when it is not to be updated.
nothingChanged_ComparesSeries(existingBook, book, updateSeries) ==
  /\ existingBook.Title = book.Title
  /\ authorsEqual(existingBook.Authors, book.Authors)
  /\ existingBook.Series = book.Series

\* Whether UpdateBook has nothing to update.
nothingChanged(existingBook, book, updateSeries) ==
  /\ existingBook.Title = book.Title
  /\ authorsEqual(existingBook.Authors, book.Authors)
  /\ (~updateSeries \/ existingBook.Series = book.Series)

\* The outcome of UpdateBook(book, tmpl, updateSeries): existing is the ID
\* the title-and-authors lookup returned (0: not found).
UpdateBookTx(d, dk, book, updateSeries, fail, existing) ==
  LET existingBooks == getBooksByID(d, {book.ID})
      existingBook == existingBooks[1]
      found == existing # 0
      sameAuthors == authorsEqual(existingBook.Authors, book.Authors)
      d1 == IF book.Title # existingBook.Title
               \/ (updateSeries /\ book.Series # existingBook.Series)
            THEN [d EXCEPT !.books = (@ \ {Row(d.books, book.ID)}) \cup
                    {[id |-> book.ID,
                      series |-> IF updateSeries THEN book.Series
                                 ELSE existingBook.Series,
                      title |-> book.Title]}]
            ELSE d
      d2 == IF sameAuthors THEN d1
            ELSE insertAuthors(
                   [d1 EXCEPT !.books_authors = {l \in @ : l.book_id # book.ID}],
                   book.Authors, book.ID)
      d3 == [d2 EXCEPT !.books_fts =
               {IF x.docid = book.ID
                THEN [x EXCEPT !.title = Str(book.Title),
                               !.author = Join(Strs(book.Authors), <<" & ">>)]
                ELSE x : x \in @}]
      out(err, errID, dbv, dkv, ps) ==
        [err |-> err, errID |-> errID, db |-> dbv, disk |-> dkv,
         overwritten |-> ps]
      \* What follows updateFilenames, whose outcome is uf and whose error is
      \* only logged.
      renamed(uf) ==
        IF fail = "commit" THEN out("update book", 0, uf.db, uf.disk, uf.overwritten)
        ELSE out("", 0, uf.db, uf.disk, uf.overwritten)
  IN IF Len(existingBooks) = 0 THEN out("book not found", 0, d, dk, {})
     ELSE IF nothingChanged(existingBook, book, updateSeries)
          THEN out("", 0, d, dk, {})
     ELSE IF found /\ book.ID # existing THEN out("Book already exists", existing, d, dk, {})
     ELSE renamed(updateFilenames(d3, dk, book, TRUE, "none"))

\* The caller edits a book it read from the library: the record carries the
\* book's current files.
UpdateBook(id, title, authors, series, updateSeries, fail) ==
  LET stored == getBooksByID(db, {id})
      book == [ID |-> id, Title |-> title, Authors |-> authors, Series |-> series,
               Files |-> IF Len(stored) = 0 THEN <<>> ELSE stored[1].Files]
      matches == getBookIDByTitleAndAuthors(db, title, authors)
  IN \E existing \in (IF matches = {} THEN {0} ELSE matches) :
       LET r == UpdateBookTx(db, disk, book, updateSeries, fail, existing)
       IN /\ db' = Commit(db, r)
          /\ disk' = r.disk
          /\ last' = FileCall(
                       IF r.err = ""
                       THEN Call("update", "", 0, id, 0, FALSE,
                                 [title |-> title, authors |-> authors,
                                  series |-> series, updateSeries |-> updateSeries])
                       ELSE Call("update", r.err, r.errID, id, 0, FALSE, <<>>),
                       r.overwritten)

\* The calls of UpdateBook of one of the classes cs.
Update(cs) ==
  \E c \in cs :
    \E id \in IDs, title \in c.titles, authors \in c.authorLists,
       series \in c.seriesNames, updateSeries \in BOOLEAN, fail \in c.faults :
      UpdateBook(id, title, authors, series, updateSeries, fail)

(* ------------------------------ MergeBooks ----------------------------- *)

\* A merge that leaves the files with the books it is about to delete.
mergeFiles_Skipped(d, ids) == d

\* "update files set book_id=ids[0] where book_id in (ids[1:])".
mergeFiles(d, ids) ==
  [d EXCEPT !.files =
     {IF f.book_id \in {ids[i] : i \in 2..Len(ids)}
      THEN [f EXCEPT !.book_id = ids[1]] ELSE f : f \in @}]

\* A merge that also removes the authors only the deleted books had.
mergeDeleteBooks_WithAuthors(d, ids) ==
  LET rest == {ids[i] : i \in 2..Len(ids)}
      links == {l \in d.books_authors : l.book_id \in rest}
      kept == {l.author_id : l \in d.books_authors \ links}
  IN Cascade([d EXCEPT !.books = {b \in @ : b.id \notin rest},
                       !.authors = {a \in @ : a.id \in kept
                                       \/ a.id \notin {l.author_id : l \in links}}])

\* "delete from books where id in (ids[1:])".
mergeDeleteBooks(d, ids) ==
  Cascade([d EXCEPT !.books = {b \in @ : b.id \notin {ids[i] : i \in 2..Len(ids)}}])

\* A merge that deletes the target's document only.
mergeDeleteDocs_TargetOnly(d, ids) ==
  [d EXCEPT !.books_fts = {x \in @ : x.docid # ids[1]}]

\* "delete from books_fts where docid in (ids[1:])", then "where docid=ids[0]".
mergeDeleteDocs(d, ids) ==
  [d EXCEPT !.books_fts = {x \in @ : x.docid \notin {ids[i] : i \in 1..Len(ids)}}]

mergeBooks(d, dk, ids, fail) ==
  LET rest == {ids[i] : i \in 2..Len(ids)}
      moved == {f \in d.files : f.book_id \in rest}
      out(err, dbv, dkv, ps) ==
        [err |-> err, errID |-> 0, db |-> dbv, disk |-> dkv, overwritten |-> ps]
      \* What follows updateFilenames, whose outcome is uf.
      renamed(uf) ==
        IF uf.err # "" THEN out("update filenames", uf.db, uf.disk, uf.overwritten)
        ELSE IF fail = "commit" THEN out("commit", uf.db, uf.disk, uf.overwritten)
        ELSE out("", uf.db, uf.disk, uf.overwritten)
      \* What follows indexBookInSearch of book b, whose outcome is ix.
      indexed(b, ix) ==
        IF ix.err # "" THEN out("index book in search", ix.db, dk, {})
        ELSE renamed(updateFilenames(ix.db, dk, b, TRUE, "none"))
      \* What follows getBooksByID in the store dm, which returned books.
      read(dm, books) ==
        IF Len(books) = 0 THEN out("Can't find original book to reindex", dm, dk, {})
        ELSE IF Len(books[1].Files) = 0 THEN out("panic", dm, dk, {})
        ELSE indexed(books[1], indexBookInSearch(dm, books[1], TRUE))
      \* What follows the deletes, which left the store dm.
      deleted(dm) == read(dm, getBooksByID(dm, {ids[1]}))
  IN IF Len(ids) = 0 THEN out("panic", d, dk, {})
     ELSE IF moved # {} /\ ids[1] \notin Ids(d.books) THEN out("merge books", d, dk, {})
     ELSE deleted(mergeDeleteDocs(mergeDeleteBooks(mergeFiles(d, ids), ids), ids))

MergeBooks(ids, fail) ==
  LET r == mergeBooks(db, disk, ids, fail)
  IN /\ db' = Commit(db, r)
     /\ disk' = r.disk
     /\ last' = FileCall(Call("merge", r.err, 0, 0, 0, FALSE, ids), r.overwritten)

Merge(faults) ==
  \E ids \in SeqsUpTo(IDs, MaxMerge), fail \in faults : MergeBooks(ids, fail)

(* ------------------------------ DeleteFile ----------------------------- *)

\* A check that never reports the last file.
IsLastFile_Never(d, bf) == [err |-> "", last |-> FALSE]

\* A check that reports every file as the last one.
IsLastFile_Always(d, bf) == [err |-> "", last |-> TRUE]

\* The outcome of IsLastFile(bf), which reads the committed store.
IsLastFile(d, bf) ==
  LET owners == {f.book_id : f \in {r \in d.files : r.filename = bf.CurrentFilename}}
      books == getBooksByID(d, owners)
  IN IF owners = {} THEN [err |-> "book not found", last |-> FALSE]
     ELSE [err |-> "", last |-> Len(books[1].Files) = 1]

\* A delete that leaves the tags alone.
cleanupTags_Skipped(d, id) == d

\* A delete that removes every tag of the file, shared or not.
cleanupTags_AllOfFile(d, id) ==
  LET tags == {l.tag_id : l \in {r \in d.files_tags : r.file_id = id}}
  IN Cascade([d EXCEPT !.tags = {t \in @ : t.id \notin tags}])

cleanupTags(d, id) ==
  LET tags == {l.tag_id : l \in {r \in d.files_tags : r.file_id = id}}
      toDel == {t \in tags : Cardinality({l \in d.files_tags : l.tag_id = t}) = 1}
  IN Cascade([d EXCEPT !.tags = {t \in @ : t.id \notin toDel}])

\* A delete that leaves the authors alone.
cleanupAuthors_Skipped(d, b) == d

cleanupAuthors(d, b) ==
  LET authors == {l.author_id : l \in {r \in d.books_authors : r.book_id = b.ID}}
      toDel == {a \in authors :
                  Cardinality({l \in d.books_authors : l.author_id = a}) = 1}
  IN Cascade([d EXCEPT !.authors = {a \in @ : a.id \notin toDel}])

deleteBookFromSearch(d, b) ==
  [d EXCEPT !.books_fts = {x \in @ : x.docid # b.ID}]

deleteBook(d, b) ==
  deleteBookFromSearch(
    Cascade([cleanupAuthors(d, b) EXCEPT !.books = {r \in @ : r.id # b.ID}]), b)

\* os.Remove(p): rmFails says whether it fails, leaving the file in place.
osRemove(dk, p, rmFails) ==
  [err |-> IF rmFails THEN "remove" ELSE "",
   disk |-> IF rmFails THEN dk ELSE dk \ {p}]

\* A delete that returns the error of the removal from disk.
removeError_Returned(err) == err

\* What deleteFile returns when os.Remove returned err: it logs the error.
removeError(err) == ""

\* The steps of deleteFile at which an injected store fault makes it fail.
DeleteFaults == {"tags", "row", "book", "index"}

\* The outcome of deleteFile(tx, bf): d is the committed store, which the
\* calls made on the library (not on the transaction) read; rmFails says
\* whether removing the file from disk fails, fail is the injected store
\* fault ("none": no fault).
deleteFile(d, dk, bf, rmFails, fail) ==
  LET rows == {f \in d.files : f.id = bf.ID}
      bID == (CHOOSE f \in rows : TRUE).book_id
      out(err, dbv, dkv) == [err |-> err, errID |-> 0, db |-> dbv, disk |-> dkv]
      \* What follows the re-indexing, whose outcome is ix.
      reindexed(ix, dkv) == out(ix.err, ix.db, dkv)
      \* What follows the deletion of book b, if it was the file's last.
      gone(b, d3, dkv) ==
        IF fail = "index" THEN out("index book in search", d3, dkv)
        ELSE reindexed(indexBookInSearch(deleteBookFromSearch(d3, b), b, TRUE), dkv)
      \* What follows lib.GetBooksByID, which returned books.
      read(isLast, d2, dkv, books) ==
        IF Len(books) # 1 THEN out("wrong NO of books returned", d2, dkv)
        ELSE IF isLast /\ fail = "book" THEN out("cannot delete book", d2, dkv)
        ELSE gone(books[1], IF isLast THEN deleteBook(d2, books[1]) ELSE d2, dkv)
      \* What follows the deletion of the file row and os.Remove.
      removed(isLast, d2, rm) ==
        IF removeError(rm.err) # "" THEN out(removeError(rm.err), d2, rm.disk)
        ELSE read(isLast, d2, rm.disk, getBooksByID(d, {bID}))
      \* What follows cleanupTags, which left the store d1.
      cleaned(isLast, d1) ==
        IF fail = "row" THEN out("delete file", d1, dk)
        ELSE removed(isLast, Cascade([d1 EXCEPT !.files = {f \in @ : f.id # bf.ID}]),
                     osRemove(dk, bf.CurrentFilename, rmFails))
      \* What follows IsLastFile, whose outcome is lastFile.
      checked(lastFile) ==
        IF lastFile.err # "" THEN out(lastFile.err, d, dk)
        ELSE IF rows = {} THEN out("no rows", d, dk)
        ELSE IF fail = "tags" THEN out("error when cleaning up tags", d, dk)
        ELSE cleaned(lastFile.last, cleanupTags(d, bf.ID))
  IN checked(IsLastFile(d, bf))

\* The caller deletes a file it read from the library (or names a file the
\* library does not have).
DeleteFile(id, rmFails, fail) ==
  LET files == getFilesByID(db, {id})
      bf == IF Len(files) = 0
            THEN [ID |-> id, CurrentFilename |-> NoPath]
            ELSE files[1]
      r == deleteFile(db, disk, bf, rmFails, fail)
  IN /\ db' = Commit(db, r)
     /\ disk' = r.disk
     /\ last' = Call("delete", r.err, 0, 0, id, FALSE,
                     [rmFails |-> rmFails, fail |-> fail,
                      path |-> bf.CurrentFilename])

\* The calls of DeleteFile with a fault of faults.
Delete(faults) ==
  \E id \in IDs, rmFails \in BOOLEAN, fail \in faults : DeleteFile(id, rmFails, fail)

(* ------------------------------ delete command ------------------------ *)

\* What last records of the delete command besides the fields of Call: the
\* files of the book as read at the start, and how many of them the loop has
\* passed to DeleteFile.
CommandCall(c, files, done) == c @@ [files |-> files, done |-> done]

\* Whether the delete command is in its loop, with files left to delete.
Deleting ==
  /\ last.op = "deleteCmd"
  /\ last.err = ""
  /\ last.done < Len(last.files)

\* deleteFunc up to its loop: it reads the book with the ID passed and exits
\* unless exactly one book came back.
deleteFunc(ID) ==
  LET books == getBooksByID(db, {ID})
  IN /\ ~Deleting
     /\ UNCHANGED <<db, disk>>
     /\ last' = IF Len(books) # 1
                THEN CommandCall(Call("deleteCmd", "Wrong number of books returned",
                                      0, ID, 0, FALSE, <<>>), <<>>, 0)
                ELSE CommandCall(Call("deleteCmd", "", 0, ID, 0, FALSE, <<>>),
                                 books[1].Files, 0)

\* One round of the loop of deleteFunc: DeleteFile of the next file of the
\* book, each call a transaction of its own; an error ends the command.
deleteFuncFile(rmFails, fail) ==
  /\ Deleting
  /\ LET bf == last.files[last.done + 1]
         r == deleteFile(db, disk, bf, rmFails, fail)
     IN /\ db' = Commit(db, r)
        /\ disk' = r.disk
        /\ last' = CommandCall(Call("deleteCmd", r.err, 0, last.bookID, bf.ID, FALSE,
                                    [rmFails |-> rmFails, fail |-> fail,
                                     path |-> bf.CurrentFilename]),
                               last.files, last.done + 1)

\* The delete command started for any book ID.
DeleteCommand == \E ID \in IDs : deleteFunc(ID)

\* The next DeleteFile of a running delete command, with a fault of faults.
DeleteCommandFile(faults) ==
  \E rmFails \in BOOLEAN, fail \in faults : deleteFuncFile(rmFails, fail)

(* ------------------------------ SearchPaged ---------------------------- *)

\* Whether search document x matches a one-word query: the word is a token
\* of one of the columns.
Matches(x, word) ==
  \E col \in {"author", "series", "title", "extension", "tags", "source"} :
    \E i \in DOMAIN x[col] : x[col][i] = word

\* The first n elements of seq past the first skip ones ("LIMIT n OFFSET skip").
LimitOffset(seq, n, skip) ==
  SubSeq(seq, skip + 1, IF skip + n < Len(seq) THEN skip + n ELSE Len(seq))

\* The outcome of SearchPaged(terms, offset, limit, moreResultsLimit) on the
\* committed store d.
SearchPaged(d, terms, offset, limit, moreResultsLimit) ==
  LET docids == SortedSeq({x.docid : x \in {y \in d.books_fts : Matches(y, terms)}})
      ids == IF limit = 0 THEN docids
             ELSE LimitOffset(docids, limit + moreResultsLimit, offset)
      cut == limit > 0 /\ Len(ids) > limit
      kept == IF cut THEN SubSeq(ids, 1, limit) ELSE ids
  IN [books |-> getBooksByID(d, {kept[i] : i \in DOMAIN kept}),
      moreResults |-> IF cut THEN Len(ids) - limit ELSE 0,
      err |-> ""]

\* A caller searches the library; the store is left alone.
Search ==
  \E terms \in SearchTerms, offset \in 0..MaxPage, limit \in 0..MaxPage,
     moreResultsLimit \in 0..MaxPage :
    LET r == SearchPaged(db, terms, offset, limit, moreResultsLimit)
    IN /\ UNCHANGED <<db, disk>>
       /\ last' = Call("search", r.err, 0, 0, 0, FALSE,
                       [terms |-> terms, offset |-> offset, limit |-> limit,
                        moreResultsLimit |-> moreResultsLimit,
                        books |-> Len(r.books), moreResults |-> r.moreResults])

(* ------------------------------ GetUniqueName -------------------------- *)

\* Path strings written out character by character.

\* An extension that starts at the last dot of the whole path.
RECURSIVE ExtFrom_AnyDot(_, _)
ExtFrom_AnyDot(f, i) ==
  IF i = 0 THEN Len(f) + 1
  ELSE IF f[i] = "." THEN i
  ELSE ExtFrom_AnyDot(f, i - 1)

\* The position of the first character of path.Ext(f), scanning back from
\* position i: Len(f) + 1 when the last element of f has no dot.
RECURSIVE ExtFrom(_, _)
ExtFrom(f, i) ==
  IF i = 0 \/ f[i] = "/" THEN Len(f) + 1
  ELSE IF f[i] = "." THEN i
  ELSE ExtFrom(f, i - 1)

\* path.Ext(f).
Ext(f) == SubSeq(f, ExtFrom(f, Len(f)), Len(f))

\* strings.TrimSuffix(str, suffix).
TrimSuffix(str, suffix) ==
  IF /\ Len(suffix) <= Len(str)
     /\ SubSeq(str, Len(str) - Len(suffix) + 1, Len(str)) = suffix
  THEN SubSeq(str, 1, Len(str) - Len(suffix))
  ELSE str

\* strconv.Itoa(i) for i >= 0.
RECURSIVE Itoa(_)
Itoa(i) ==
  LET digit(k) == <<"0", "1", "2", "3", "4", "5", "6", "7", "8", "9">>[k + 1]
  IN IF i < 10 THEN <<digit(i)>> ELSE Itoa(i \div 10) \o <<digit(i % 10)>>

\* The i-th name GetUniqueName tries for f.
Candidate(f, i) ==
  TrimSuffix(f, Ext(f)) \o <<" ", "(">> \o Itoa(i) \o <<")">> \o Ext(f)

\* A loop that returns its first candidate without a look at the filesystem.
UniqueNameLoop_Unchecked(fs, f, newName, i) ==
  IF newName = f /\ f \in fs THEN Candidate(f, i) ELSE newName

\* The loop of GetUniqueName with newName and i as they stand: os.Stat
\* succeeds on the paths of fs.
RECURSIVE UniqueNameLoop(_, _, _, _)
UniqueNameLoop(fs, f, newName, i) ==
  IF newName \notin fs THEN newName
  ELSE UniqueNameLoop(fs, f, Candidate(f, i), i + 1)

\* GetUniqueName(f) of library.go on a filesystem that holds the paths fs.
GetUniqueNameString(fs, f) == UniqueNameLoop(fs, f, f, 1)

\* What last records in a run of SpecNames: the path asked for, the name
\* returned, whether every file so far was put in place by a caller of
\* GetUniqueName, and the last suffix returned for each path (0: none).
NameCall(f, name, own, given) ==
  [f |-> f, name |-> name, own |-> own, given |-> given]

\* The caller names a path through GetUniqueName and puts a file there.
Resolve ==
  \E f \in Names :
    LET name == GetUniqueNameString(disk, f)
        n == IF name = f THEN 0
             ELSE CHOOSE k \in 1..(Cardinality(disk) + 1) : name = Candidate(f, k)
    IN /\ disk' = disk \cup {name}
       /\ UNCHANGED db
       /\ last' = Call("unique", "", 0, 0, 0, f \in disk,
                       NameCall(f, name, last.arg.own,
                                [last.arg.given EXCEPT ![f] = n]))

\* Someone else puts a file at a path GetUniqueName may try.
Create ==
  \E f \in Names, i \in 0..MaxSuffix :
    LET p == IF i = 0 THEN f ELSE Candidate(f, i)
    IN /\ p \notin disk
       /\ disk' = disk \cup {p}
       /\ UNCHANGED db
       /\ last' = Call("create", "", 0, 0, 0, FALSE,
                       NameCall(p, p, FALSE, last.arg.given))

(* ------------------------------ getIDOrFilename ------------------------ *)

\* The value of a decimal digit.
DigitValue == [c \in {Itoa(k)[1] : k \in 0..9} |-> CHOOSE k \in 0..9 : Itoa(k) = <<c>>]

\* The value of a sequence of decimal digits.
RECURSIVE ParseUint(_)
ParseUint(s) ==
  IF s = <<>> THEN 0
  ELSE ParseUint(SubSeq(s, 1, Len(s) - 1)) * 10 + DigitValue[s[Len(s)]]

\* strconv.ParseInt(s, 10, 64): an optional sign, then one or more decimal
\* digits.  The arguments of the model are short, far from the range of 64
\* bits, so that no numeral is out of range.
ParseInt(s) ==
  LET signed == s # <<>> /\ s[1] \in {"+", "-"}
      digits == IF signed THEN Tail(s) ELSE s
  IN IF digits = <<>> \/ \E i \in DOMAIN digits : digits[i] \notin DOMAIN DigitValue
     THEN [err |-> "invalid syntax", val |-> 0]
     ELSE [err |-> "",
           val |-> IF signed /\ s[1] = "-" THEN 0 - ParseUint(digits)
                   ELSE ParseUint(digits)]

\* The triple getIDOrFilename(args) returns when the filename flag holds
\* filename: err is "" for a nil error.
getIDOrFilename(args, filename) ==
  LET parsed == ParseInt(args[1])
  IN IF Len(args) > 1
     THEN [ID |-> 0, name |-> <<>>, err |-> "too many arguments"]
     ELSE IF Len(args) = 1
          THEN IF filename # <<>>
               THEN [ID |-> 0, name |-> <<>>,
                     err |-> "Both a filename and an ID were provided"]
               ELSE IF parsed.err # ""
                    THEN [ID |-> 0, name |-> <<>>,
                          err |-> "The passed ID is not an integer"]
               ELSE [ID |-> parsed.val, name |-> <<>>, err |-> ""]
     ELSE IF filename = <<>>
          THEN [ID |-> 0, name |-> <<>>,
                err |-> "Neither a filename or an ID was provided."]
     ELSE [ID |-> 0, name |-> filename, err |-> ""]

\* What last records in a run of SpecArgs: the arguments and the flag of the
\* command line, and the ID and name returned (0 and <<>> before the call).
ArgsCall(args, filename, ID, name) ==
  [args |-> args, filename |-> filename, ID |-> ID, name |-> name]

\* A delete command reads its command line.
GetIDOrFilename ==
  LET r == getIDOrFilename(last.arg.args, last.arg.filename)
  IN /\ last.op = "args"
     /\ UNCHANGED <<db, disk>>
     /\ last' = Call("getIDOrFilename", r.err, 0, 0, 0, FALSE,
                     ArgsCall(last.arg.args, last.arg.filename, r.ID, r.name))

(* ------------------------------ moveFile ------------------------------- *)

\* A caller moves the file at src to dst, with any faults.
MoveFile ==
  \E src \in Paths, dst \in Paths, rename \in BOOLEAN,
     copy \in {"none"} \cup CopyFaults, remove \in BOOLEAN :
    LET r == moveFile(disk, src, dst, FileFaults(rename, copy, remove))
    IN /\ src # dst
       /\ disk' = r.disk
       /\ UNCHANGED db
       /\ last' = Call("move", r.err, 0, 0, 0, src \in disk,
                       [src |-> src, dst |-> dst, rename |-> rename,
                        copy |-> copy, remove |-> remove])

(* ------------------------------ specification -------------------------- *)

Init ==
  /\ db = EmptyDB
  /\ disk = {InPath(k) : k \in Inputs}
  /\ last = Call("init", "", 0, 0, 0, FALSE, <<>>)
  /\ nops = 0

\* A class of calls: the sets its arguments and its fault are drawn from.
Class(titles, authorLists, seriesNames, moves, faults) ==
  [titles |-> titles, authorLists |-> authorLists, seriesNames |-> seriesNames,
   moves |-> moves, faults |-> faults]

\* Imports that move the file, of any title and author list.
ImportAny == Class(Titles, AuthorLists, {"S"}, {TRUE}, {"none"})

\* Imports that copy the file.
ImportCopy == Class({"T1"}, {<<"A">>}, {"S"}, {FALSE}, {"none"})

\* Imports into which a fault is injected.
ImportFaulty == Class({"T1"}, {<<"A", "B">>}, {"S"}, {TRUE}, ImportFaults)

UpdateAny == Class(Titles, AuthorLists, SeriesNames, {TRUE}, {"none"})

\* Updates whose commit fails.
UpdateFaulty == Class({"T2"}, {<<"A">>}, {"S"}, {TRUE}, {"commit"})

\* One more call, at most max in a behaviour.
Tick(max) == nops < max /\ nops' = nops + 1

\* Any MaxOps calls.
Next ==
  \/ Tick(MaxOps) /\ Import({ImportAny, ImportCopy, ImportFaulty})
  \/ Tick(MaxOps) /\ Update({UpdateAny, UpdateFaulty})
  \/ Tick(MaxOps) /\ Merge({"none", "commit"})
  \/ Tick(MaxOps) /\ Delete({"none"})

Spec == Init /\ [][Next]_vars

ImportDeep == Class(DeepTitles, DeepAuthorLists, {""}, {TRUE}, {"none"})

UpdateDeep == Class(DeepTitles, DeepAuthorLists, {""}, {TRUE}, {"none"})

\* Longer runs of fault-free calls over fewer titles and author lists.
NextDeep ==
  \/ Tick(MaxDeepOps) /\ Import({ImportDeep})
  \/ Tick(MaxDeepOps) /\ Update({UpdateDeep})
  \/ Tick(MaxDeepOps) /\ Merge({"none"})
  \/ Tick(MaxDeepOps) /\ Delete({"none"})

SpecDeep == Init /\ [][NextDeep]_vars

\* Imports of one title and author list under either series.
ImportSeries == Class({"T1"}, {<<"A">>}, SeriesNames, {TRUE}, {"none"})

\* Calls of ImportBook only: no update, merge or delete.
NextImport ==
  Tick(MaxOps) /\ Import({ImportAny, ImportCopy, ImportSeries})

SpecImport == Init /\ [][NextImport]_vars

\* Imports of books that share author A and differ in author B.
ImportShared == Class(Titles, DeepAuthorLists, {"S"}, {TRUE}, {"none"})

\* Calls of ImportBook and DeleteFile, the deletes with and without faults.
NextDelete ==
  \/ Tick(MaxDeleteOps) /\ Import({ImportShared})
  \/ Tick(MaxDeleteOps) /\ Delete({"none"} \cup DeleteFaults)

SpecDelete == Init /\ [][NextDelete]_vars

\* Calls of ImportBook, DeleteFile and SearchPaged.
NextSearch ==
  \/ Tick(MaxOps) /\ Import({ImportShared})
  \/ Tick(MaxOps) /\ Delete({"none"})
  \/ Tick(MaxOps) /\ Search

SpecSearch == Init /\ [][NextSearch]_vars

\* A filesystem without files.
InitNames ==
  /\ db = EmptyDB
  /\ disk = {}
  /\ last = Call("init", "", 0, 0, 0, FALSE,
                 NameCall(<<>>, <<>>, TRUE, [f \in Names |-> 0]))
  /\ nops = 0

\* Calls of GetUniqueName among files that appear at the names it tries.
NextNames ==
  \/ Tick(MaxNameOps) /\ Resolve
  \/ Tick(MaxNameOps) /\ Create

SpecNames == InitNames /\ [][NextNames]_vars

\* The fault modes of the filesystem calls of an import.
FileFaultModes == {"move", "rename", "remove", "copy"}

\* Imports that move or copy the file, with and without filesystem faults.
ImportFiles ==
  Class({"T1"}, {<<"A">>}, {"S"}, BOOLEAN, {"none"} \cup FileFaultModes)

\* Updates that rename the files of a book.
UpdateFiles == Class(Titles, DeepAuthorLists, {"S"}, {TRUE}, {"none"})

\* Calls that move or copy files, and deletes that may leave a file behind.
NextFiles ==
  \/ Tick(MaxOps) /\ Import({ImportShared, ImportFiles})
  \/ Tick(MaxOps) /\ Update({UpdateFiles})
  \/ Tick(MaxOps) /\ Merge({"none"})
  \/ Tick(MaxOps) /\ Delete({"none"})

SpecFiles == Init /\ [][NextFiles]_vars

\* Calls of ImportBook with records of no, one and two files.
NextRecords ==
  \/ Tick(MaxOps) /\ Import({ImportShared})
  \/ Tick(MaxOps) /\ ImportRecords

SpecRecords == Init /\ [][NextRecords]_vars

\* Imports and runs of the delete command; nothing else is called while the
\* command is in its loop.
NextCommand ==
  \/ Tick(MaxOps) /\ ~Deleting /\ Import({ImportShared})
  \/ Tick(MaxOps) /\ DeleteCommand
  \/ nops' = nops /\ DeleteCommandFile({"none", "row"})

SpecCommand == Init /\ [][NextCommand]_vars

\* Calls with an empty author list, one name, and one name given twice.
CallsRepeated ==
  Class({"T1"}, {<<>>, <<"A">>, <<"A", "A">>}, {"S"}, {TRUE}, {"none"})

\* Calls of the four operations for one title, with author lists that are
\* empty or repeat a name.
NextIdentity ==
  \/ Tick(MaxOps) /\ Import({CallsRepeated})
  \/ Tick(MaxOps) /\ Update({CallsRepeated})
  \/ Tick(MaxOps) /\ Merge({"none"})
  \/ Tick(MaxOps) /\ Delete({"none"})

SpecIdentity == Init /\ [][NextIdentity]_vars

\* Any command line of up to MaxArgs arguments, with and without the flag.
InitArgs ==
  /\ db = EmptyDB
  /\ disk = {}
  /\ \E args \in SeqsUpTo(ArgStrings, MaxArgs), filename \in FilenameFlags :
       last = Call("args", "", 0, 0, 0, FALSE, ArgsCall(args, filename, 0, <<>>))
  /\ nops = 0

\* The call of getIDOrFilename on the command line.
NextArgs == Tick(1) /\ GetIDOrFilename

SpecArgs == InitArgs /\ [][NextArgs]_vars

\* Any files at the paths of Paths.
InitMove ==
  /\ db = EmptyDB
  /\ disk \in SUBSET Paths
  /\ last = Call("init", "", 0, 0, 0, FALSE, <<>>)
  /\ nops = 0

\* Calls of moveFile.
NextMove == Tick(MaxMoveOps) /\ MoveFile

SpecMove == InitMove /\ [][NextMove]_vars

(* ------------------------------ properties ----------------------------- *)

\* The authors GetBooksByID returns for book id of store d.
AuthorsOf(d, id) == getBooksByID(d, {id})[1].Authors

\* The tag lists a caller may attach to a record.
TagLists == {<<>>, <<"x", "y">>}

\* C1: in every reachable library, ImportBook of a record whose file hash
\* equals the hash of a stored file row returns the duplicate error and leaves
\* every table and the search index as they were, whatever the record's
\* title, authors and tags (and whether it moves or copies).
C1_DuplicateImportChangesNothing ==
  \A title \in Titles, authors \in AuthorLists :
    LET matches == getBookIDByTitleAndAuthors(db, title, authors)
    IN \A k \in Inputs, tags \in TagLists, move \in BOOLEAN,
          fail \in {"none", "commit"},
          existing \in (IF matches = {} THEN {0} ELSE matches) :
         (\E f \in db.files : f.hash = HashOf(k)) =>
           LET book == ImportRecord(title, authors, "S", tags, k)
               r == ImportBookTx(db, disk, book, move, fail, existing)
           IN r.err = "duplicate" /\ Commit(db, r) = db

\* A duplicate import was refused while the library held books.
C1_Witness ==
  /\ last.op = "import"
  /\ last.err = "duplicate"
  /\ \E f \in db.files : f.hash = last.arg.hash

\* C2: the ID the duplicate error carries is the ID of the book that owns the
\* stored file with the record's hash.
C2_DuplicateErrorNamesOwningBook ==
  (last.op = "import" /\ last.err = "duplicate") =>
    \E f \in db.files : f.hash = last.arg.hash /\ last.errID = f.book_id

\* C3: no two file rows share a hash, and no two share a filename.
C3_UniqueHashAndFilename ==
  \A f, g \in db.files :
    f # g => (f.id # g.id /\ f.hash # g.hash /\ f.filename # g.filename)

\* An import rendered the name another row still holds (that row's file was
\* renamed on disk by an update whose commit failed) and was refused.
C3_Witness ==
  /\ last.op = "import"
  /\ last.err = "UNIQUE constraint failed: files.filename"
  /\ db.files # {}

\* C4: every book row owns at least one file row.
C4_EveryBookOwnsAFile ==
  \A b \in db.books : \E f \in db.files : f.book_id = b.id

\* A file was deleted and a book with a single file is left.
C4_Witness ==
  /\ last.op = "delete"
  /\ last.err = ""
  /\ \E b \in db.books : Cardinality({f \in db.files : f.book_id = b.id}) = 1

\* C5: every author row is linked to at least one book.
C5_EveryAuthorIsLinked ==
  \A a \in db.authors : \E l \in db.books_authors : l.author_id = a.id

\* C6: every tag row is linked to at least one file.
C6_EveryTagIsLinked ==
  \A t \in db.tags : \E l \in db.files_tags : l.tag_id = t.id

\* A file was deleted and tags are left.
C6_Witness ==
  /\ last.op = "delete"
  /\ last.err = ""
  /\ db.tags # {}

\* C7: the docids of the search index are exactly the book IDs.
C7_IndexMatchesBooks ==
  {x.docid : x \in db.books_fts} = Ids(db.books)

\* C8: a successful import of a record whose title and ordered author list
\* equal those of a stored book creates no book row: the new file row is owned
\* by such a book, there is one file row more, and the book rows (title and
\* series) and the author links are as before.
C8_MatchingImportJoinsExistingBook ==
  [][(last'.op = "import" /\ last'.err = "") =>
       LET same == {b \in db.books :
                      /\ b.title = last'.arg.title
                      /\ AuthorsOf(db, b.id) = last'.arg.authors}
       IN same # {} =>
            /\ db'.books = db.books
            /\ db'.books_authors = db.books_authors
            /\ Cardinality(db'.files) = Cardinality(db.files) + 1
            /\ \E f \in db'.files \ db.files : f.book_id \in Ids(same)]_vars

\* C9: a successful import of a record with the title of a stored book and
\* the same author names in another order (no stored book having the title
\* with the names in the record's order) creates a new book, which reads back
\* with the authors in the record's order, while the stored book reads back
\* as before.
C9_AuthorOrderIsSignificant ==
  [][(last'.op = "import" /\ last'.err = "") =>
       LET a == last'.arg.authors
           titled == {b \in db.books : b.title = last'.arg.title}
           same == {b \in titled : AuthorsOf(db, b.id) = a}
           permuted == {b \in titled :
                          /\ AuthorsOf(db, b.id) # a
                          /\ Len(AuthorsOf(db, b.id)) = Len(a)
                          /\ {AuthorsOf(db, b.id)[i] : i \in 1..Len(a)}
                               = {a[i] : i \in 1..Len(a)}}
       IN (permuted # {} /\ same = {}) =>
            /\ ~last'.found
            /\ last'.bookID \notin Ids(db.books)
            /\ last'.bookID \in Ids(db'.books)
            /\ AuthorsOf(db', last'.bookID) = a
            /\ \A b \in permuted : AuthorsOf(db', b.id) = AuthorsOf(db, b.id)]_vars

\* Two books with one title, the second imported with the first one's authors
\* in the other order.
C9_Witness ==
  /\ last.op = "import"
  /\ last.err = ""
  /\ ~last.found
  /\ last.arg.authors = <<"B", "A">>
  /\ \E b \in db.books :
       /\ b.id # last.bookID
       /\ b.title = last.arg.title
       /\ AuthorsOf(db, b.id) = <<"A", "B">>

\* C10: an ImportBook that fails, at whatever step after the transaction was
\* opened, leaves the store as it was before the call.
C10_FailedImportLeavesStore ==
  [][(last'.op = "import" /\ last'.err # "") => db' = db]_vars

\* An import failed at its commit, after it had written all its rows and
\* moved the file into the library.
C10_Witness ==
  /\ last.op = "import"
  /\ last.err = "import book"
  /\ db.files = {}
  /\ \E p \in disk : p.dir = "lib"

\* The file rows of book id in store d.
FilesOf(d, id) == {f \in d.files : f.book_id = id}

\* The names of the tags linked to file id in store d.
TagNamesOf(d, id) ==
  {t.name : t \in {r \in d.tags :
              \E l \in d.files_tags : l.file_id = id /\ l.tag_id = r.id}}

\* Whether word w occurs in a document field (the empty word always does).
Has(field, w) == w = "" \/ \E i \in DOMAIN field : field[i] = w

\* The search documents of book id in store d.
DocsOf(d, id) == {x \in d.books_fts : x.docid = id}

\* C11: when only ImportBook has been called, every book has a search
\* document whose tags, extension and source fields contain every tag,
\* extension and source label of every file the book owns, and whose title,
\* author and series are the book's; and no call changes the row or the
\* title, author and series of the document of a book that exists.
C11_ImportsOnlyAppendToDocument ==
  /\ [](\A b \in db.books :
          \E x \in DocsOf(db, b.id) :
            /\ x.title = Str(b.title)
            /\ x.series = Str(b.series)
            /\ x.author = Join(Strs(AuthorsOf(db, b.id)), <<" & ">>)
            /\ \A f \in FilesOf(db, b.id) :
                 /\ Has(x.extension, f.extension)
                 /\ Has(x.source, f.source)
                 /\ \A t \in TagNamesOf(db, f.id) : Has(x.tags, t))
  /\ [][\A b \in db.books :
          /\ b \in db'.books
          /\ AuthorsOf(db', b.id) = AuthorsOf(db, b.id)
          /\ \A x \in DocsOf(db, b.id) : \E y \in DocsOf(db', b.id) :
               y.title = x.title /\ y.author = x.author /\ y.series = x.series]_vars

\* An import joined an existing book, which now owns two files with
\* different source labels.
C11_Witness ==
  /\ last.op = "import"
  /\ last.err = ""
  /\ last.found
  /\ Cardinality({f.source : f \in FilesOf(db, last.bookID)}) = 2

\* C12: in every reachable library, UpdateBook of a stored book with its
\* stored title and ordered author list, and with updateSeries false (whatever
\* the series passed) or the stored series, returns no error and leaves every
\* table, the search index and the files on disk as they were.
C12_NoOpUpdateChangesNothing ==
  \A b \in db.books, series \in SeriesNames, updateSeries \in BOOLEAN,
     fail \in {"none", "commit"} :
    (~updateSeries \/ series = b.series) =>
      LET stored == getBooksByID(db, {b.id})[1]
          book == [ID |-> b.id, Title |-> b.title, Authors |-> stored.Authors,
                   Series |-> series, Files |-> stored.Files]
          matches == getBookIDByTitleAndAuthors(db, b.title, stored.Authors)
      IN \A existing \in (IF matches = {} THEN {0} ELSE matches) :
           LET r == UpdateBookTx(db, disk, book, updateSeries, fail, existing)
           IN r.err = "" /\ Commit(db, r) = db /\ r.disk = disk

\* An update that passed the stored title and authors, another series and
\* updateSeries false succeeded, for a book that has a file the library had
\* to give a " (1)" name.
C12_Witness ==
  /\ last.op = "update"
  /\ last.err = ""
  /\ ~last.arg.updateSeries
  /\ \E b \in db.books :
       /\ b.id = last.bookID
       /\ b.title = last.arg.title
       /\ AuthorsOf(db, b.id) = last.arg.authors
       /\ b.series # last.arg.series
       /\ \E f \in FilesOf(db, b.id) : f.filename.n = 1

\* C13: in every reachable library, UpdateBook of a stored book to a title
\* and ordered author list that are not its own but those of another stored
\* book fails with "Book already exists" carrying the ID of such a book, and
\* leaves every table and the search index as they were.
C13_UpdateOntoOtherBookRefused ==
  \A b \in db.books, title \in Titles, authors \in AuthorLists,
     updateSeries \in BOOLEAN :
    LET others == {o \in db.books :
                     /\ o.id # b.id
                     /\ o.title = title
                     /\ AuthorsOf(db, o.id) = authors}
        stored == getBooksByID(db, {b.id})[1]
        book == [ID |-> b.id, Title |-> title, Authors |-> authors,
                 Series |-> b.series, Files |-> stored.Files]
        matches == getBookIDByTitleAndAuthors(db, title, authors)
    IN (others # {} /\ ~(b.title = title /\ stored.Authors = authors)) =>
         \A existing \in (IF matches = {} THEN {0} ELSE matches) :
           LET r == UpdateBookTx(db, disk, book, updateSeries, "none", existing)
           IN /\ r.err = "Book already exists"
              /\ r.errID \in Ids(others)
              /\ Commit(db, r) = db

\* C14: a successful UpdateBook that changes the title or the authors leaves
\* the book row with the new title, the book linked to exactly the new author
\* names in the requested order (each name one author row), and every search
\* document of the book, of which there is one, with the new title and the new
\* author names.
C14_UpdateSetsTitleAuthorsAndDocument ==
  [][(last'.op = "update" /\ last'.err = "") =>
       LET id == last'.bookID
           t == last'.arg.title
           a == last'.arg.authors
       IN (Row(db.books, id).title # t \/ AuthorsOf(db, id) # a) =>
            /\ Row(db'.books, id).title = t
            /\ AuthorsOf(db', id) = a
            /\ Cardinality({l \in db'.books_authors : l.book_id = id}) = Len(a)
            /\ \A i \in 1..Len(a) :
                 Cardinality({r \in db'.authors : r.name = a[i]}) = 1
            /\ DocsOf(db', id) # {}
            /\ \A x \in DocsOf(db', id) :
                 x.title = Str(t) /\ x.author = Join(Strs(a), <<" & ">>)]_vars

\* An update gave a book another title and two authors, the second of which
\* was the book's only author before.
C14_Witness ==
  /\ last.op = "update"
  /\ last.err = ""
  /\ last.arg.authors = <<"B", "A">>
  /\ last.arg.title = "T2"
  /\ \E f \in FilesOf(db, last.bookID) : f.filename.stem = <<"T2", "B", "A">>
  /\ AuthorsOf(db, last.bookID) = <<"B", "A">>

\* The IDs a list names.
Elems(ids) == {ids[i] : i \in 1..Len(ids)}

\* C15: a successful MergeBooks of two or more distinct stored books leaves
\* the first book owning exactly the file rows any of them owned, and the
\* library with the same file rows (by ID, each with its hash) as before.
C15_MergeKeepsAllFiles ==
  [][(/\ last'.op = "merge"
      /\ last'.err = ""
      /\ Len(last'.arg) >= 2
      /\ Cardinality(Elems(last'.arg)) = Len(last'.arg)
      /\ Elems(last'.arg) \subseteq Ids(db.books)) =>
       /\ {f.id : f \in FilesOf(db', last'.arg[1])}
            = {f.id : f \in {g \in db.files : g.book_id \in Elems(last'.arg)}}
       /\ {<<f.id, f.hash>> : f \in db'.files} = {<<f.id, f.hash>> : f \in db.files}]_vars

\* Two books were merged and the first owns two files.
C15_Witness ==
  /\ last.op = "merge"
  /\ last.err = ""
  /\ Len(last.arg) = 2
  /\ last.arg[1] # last.arg[2]
  /\ Cardinality(db.books) = 1
  /\ Cardinality(FilesOf(db, last.arg[1])) = 2

\* C16: a successful MergeBooks deletes no author row and no tag row.
C16_MergeDeletesNoAuthorOrTag ==
  [][(last'.op = "merge" /\ last'.err = "") =>
       /\ db.authors \subseteq db'.authors
       /\ db.tags \subseteq db'.tags]_vars

\* Two books were merged and an author only the absorbed book had is left
\* without a link.
C16_Witness ==
  /\ last.op = "merge"
  /\ last.err = ""
  /\ Len(last.arg) = 2
  /\ Cardinality(db.books) = 1
  /\ Cardinality(db.files) = 2
  /\ \E a \in db.authors : \A l \in db.books_authors : l.author_id # a.id

\* C17: after a successful MergeBooks(ids) no book row and no search document
\* of a book of ids[1:] is left, and the first book has exactly one document,
\* whose extension, tags and source are the space-joined values of all the
\* files the book now owns and whose title, author and series are the book's.
C17_MergeRebuildsDocument ==
  [][(last'.op = "merge" /\ last'.err = "") =>
       LET ids == last'.arg
           b == getBooksByID(db', {ids[1]})[1]
       IN /\ \A i \in 2..Len(ids) :
               ids[i] \notin Ids(db'.books) /\ DocsOf(db', ids[i]) = {}
          /\ ids[1] \in Ids(db'.books)
          /\ Cardinality(DocsOf(db', ids[1])) = 1
          /\ \A x \in DocsOf(db', ids[1]) :
               /\ x.title = Str(b.Title)
               /\ x.series = Str(b.Series)
               /\ x.author = Join(Strs(b.Authors), <<" & ">>)
               /\ x.extension =
                    Join([i \in DOMAIN b.Files |-> Str(b.Files[i].Extension)], <<" ">>)
               /\ x.source =
                    Join([i \in DOMAIN b.Files |-> Str(b.Files[i].Source)], <<" ">>)
               /\ x.tags =
                    Join(Flatten([i \in DOMAIN b.Files |-> Strs(b.Files[i].Tags)]),
                         <<" ">>)]_vars

\* Two books were merged; the document of the first holds the extensions of
\* both files.
C17_Witness ==
  /\ last.op = "merge"
  /\ last.err = ""
  /\ Len(last.arg) = 2
  /\ Cardinality(FilesOf(db, last.arg[1])) = 2
  /\ \E x \in DocsOf(db, last.arg[1]) : Len(x.extension) = 3

\* C18: a MergeBooks that fails, at whatever step, leaves every table and the
\* search index as they were before the call.
C18_FailedMergeLeavesStore ==
  [][(last'.op = "merge" /\ last'.err # "") => db' = db]_vars

\* A merge that names its target again among the books to absorb failed, and
\* the target and its files are there.
C18_Witness ==
  /\ last.op = "merge"
  /\ last.err = "Can't find original book to reindex"
  /\ Len(last.arg) = 2
  /\ last.arg[1] = last.arg[2]
  /\ FilesOf(db, last.arg[1]) # {}
  /\ DocsOf(db, last.arg[1]) # {}

\* The books author a is linked to in store d.
BooksOfAuthor(d, a) == {l.book_id : l \in {r \in d.books_authors : r.author_id = a}}

\* C19: a successful DeleteFile of the only file of a book removes the file
\* row and the book row, removes every author whose links were all to that
\* book, and keeps every author linked to another book together with its links
\* to the other books.
C19_DeleteLastFileCleansUp ==
  [][(/\ last'.op = "delete"
      /\ last'.err = ""
      /\ last'.fileID \in Ids(db.files)
      /\ FilesOf(db, Row(db.files, last'.fileID).book_id)
           = {Row(db.files, last'.fileID)}) =>
       LET bid == Row(db.files, last'.fileID).book_id
       IN /\ last'.fileID \notin Ids(db'.files)
          /\ bid \notin Ids(db'.books)
          /\ \A a \in db.authors :
               /\ BooksOfAuthor(db, a.id) = {bid} => a \notin db'.authors
               /\ BooksOfAuthor(db, a.id) \ {bid} # {} =>
                    /\ a \in db'.authors
                    /\ BooksOfAuthor(db', a.id) = BooksOfAuthor(db, a.id) \ {bid}]_vars

\* The only file of a book was deleted; an author of another book is left.
C19_Witness ==
  /\ last.op = "delete"
  /\ last.err = ""
  /\ Cardinality(db.books) = 1
  /\ Cardinality(db.files) = 1
  /\ last.fileID = 1
  /\ last.fileID \notin Ids(db.files)
  /\ Ids(db.books) = {2}
  /\ \E a \in db.authors : BooksOfAuthor(db, a.id) = {2}

\* C20: after a successful DeleteFile of a file that is not the last of its
\* book, the book is still there and its one search document is built from the
\* files it still owns: every word of the extension, tags and source fields is
\* an extension, tag or source label of a remaining file, and every one of
\* those is in the fields.
C20_DeleteRebuildsDocumentFromRest ==
  [][(/\ last'.op = "delete"
      /\ last'.err = ""
      /\ last'.fileID \in Ids(db.files)
      /\ FilesOf(db, Row(db.files, last'.fileID).book_id)
           # {Row(db.files, last'.fileID)}) =>
       LET bid == Row(db.files, last'.fileID).book_id
           rest == FilesOf(db', bid)
       IN /\ bid \in Ids(db'.books)
          /\ Cardinality(DocsOf(db', bid)) = 1
          /\ \A x \in DocsOf(db', bid) :
               /\ \A f \in rest :
                    /\ Has(x.extension, f.extension)
                    /\ Has(x.source, f.source)
                    /\ \A t \in TagNamesOf(db', f.id) : Has(x.tags, t)
               /\ \A i \in DOMAIN x.extension :
                    x.extension[i] \in {" "} \cup {f.extension : f \in rest}
               /\ \A i \in DOMAIN x.source :
                    x.source[i] \in {" "} \cup {f.source : f \in rest}
               /\ \A i \in DOMAIN x.tags :
                    x.tags[i] \in {" "} \cup UNION {TagNamesOf(db', f.id) : f \in rest}]_vars

\* The links of book id to its authors in store d.
LinksOf(d, id) == {l \in d.books_authors : l.book_id = id}

\* C21: a successful DeleteFile deletes the book that owned the file if and
\* only if the file was the book's last one: while other files of the book
\* remain, the book row, its author links and its other file rows are as
\* before; when none remains, the book row is gone.
C21_DeleteBookIffLastFile ==
  [][(/\ last'.op = "delete"
      /\ last'.err = ""
      /\ last'.fileID \in Ids(db.files)) =>
       LET f == Row(db.files, last'.fileID)
           bid == f.book_id
           siblings == FilesOf(db, bid) \ {f}
       IN IF siblings # {}
          THEN /\ Row(db.books, bid) \in db'.books
               /\ LinksOf(db', bid) = LinksOf(db, bid)
               /\ FilesOf(db', bid) = siblings
          ELSE bid \notin Ids(db'.books)]_vars

\* A delete has taken file 1 from book 1, which keeps its file 2 and its
\* author links.
C21_Witness ==
  /\ last.op = "delete"
  /\ last.err = ""
  /\ last.fileID = 1
  /\ 1 \notin Ids(db.files)
  /\ 1 \in Ids(db.books)
  /\ \E f \in db.files : f.id = 2 /\ f.book_id = 1
  /\ LinksOf(db, 1) # {}

\* The files tag t is linked to in store d.
FilesOfTag(d, t) == {l.file_id : l \in {r \in d.files_tags : r.tag_id = t}}

\* C22: a successful DeleteFile removes exactly the tags whose only link is
\* to the deleted file; a tag linked to another file keeps its row and its
\* links to the other files, and no other tag is touched.
C22_DeleteRemovesExactlyUnsharedTags ==
  [][(/\ last'.op = "delete"
      /\ last'.err = ""
      /\ last'.fileID \in Ids(db.files)) =>
       LET id == last'.fileID
       IN /\ db'.tags \subseteq db.tags
          /\ \A t \in db.tags :
               /\ FilesOfTag(db, t.id) = {id} => t \notin db'.tags
               /\ FilesOfTag(db, t.id) # {id} =>
                    /\ t \in db'.tags
                    /\ FilesOfTag(db', t.id) = FilesOfTag(db, t.id) \ {id}]_vars

\* The file tagged x and y has been deleted while the file tagged x remains:
\* tag y is gone, tag x is kept with its link to the remaining file.
C22_Witness ==
  /\ last.op = "delete"
  /\ last.err = ""
  /\ Cardinality(db.files) = 1
  /\ \E f \in db.files : f.hash = HashOf(1) /\ TagNamesOf(db, f.id) = {"x"}
  /\ {t.name : t \in db.tags} = {"x"}

\* The store a successful DeleteFile of file id leaves when the removal from
\* disk succeeds.
DeletedStore(d, dk, id) ==
  deleteFile(d, dk, getFilesByID(d, {id})[1], FALSE, "none").db

\* C23: a DeleteFile whose removal of the file from disk fails, and which
\* meets no other fault, returns success and commits the same deletion of
\* rows as a delete whose removal succeeded; the file stays on disk.
C23_RemoveFailureIsNotFatal ==
  [][(/\ last'.op = "delete"
      /\ last'.arg.rmFails
      /\ last'.arg.fail = "none"
      /\ last'.fileID \in Ids(db.files)) =>
       /\ last'.err = ""
       /\ last'.fileID \notin Ids(db'.files)
       /\ db' = DeletedStore(db, disk, last'.fileID)
       /\ disk' = disk]_vars

\* A delete whose removal from disk failed has returned success: the row of
\* file 1 is gone and its file is still on disk.
C23_Witness ==
  /\ last.op = "delete"
  /\ last.err = ""
  /\ last.arg.rmFails
  /\ last.fileID = 1
  /\ 1 \notin Ids(db.files)
  /\ last.arg.path \in disk

\* C24: a DeleteFile that returns an error is rolled back: books, files,
\* authors, tags, links and search documents are as before the call.  Only
\* the file's removal from disk, if already done, stays: nothing else on
\* disk changes.
C24_FailedDeleteLeavesStore ==
  [][(last'.op = "delete" /\ last'.err # "") =>
       /\ db' = db
       /\ disk' \subseteq disk
       /\ disk \ disk' \subseteq {last'.arg.path}]_vars

\* A delete of file 1 has failed after the removal from disk: the row of the
\* file is still there and its file is gone.
C24_Witness ==
  /\ last.op = "delete"
  /\ last.err # ""
  /\ last.arg.fail \in {"book", "index"}
  /\ \E f \in db.files : f.id = last.fileID /\ f.filename = last.arg.path
  /\ last.arg.path \notin disk

\* The number of search documents of store d that match the query.
MatchCount(d, terms) == Cardinality({x \in d.books_fts : Matches(x, terms)})

\* min(a, max(0, b)).
Capped(a, b) == IF b < 0 THEN 0 ELSE IF a < b THEN a ELSE b

\* C25: with limit > 0 SearchPaged returns at most limit books and
\* moreResults = min(moreResultsLimit, max(0, M - offset - limit)), M being
\* the number of matching search documents; with limit = 0 it returns all M
\* matches and moreResults = 0.
C25_SearchPagedCounts ==
  last.op = "search" =>
    LET a == last.arg
        M == MatchCount(db, a.terms)
    IN IF a.limit > 0
       THEN /\ a.books <= a.limit
            /\ a.moreResults = Capped(a.moreResultsLimit, M - a.offset - a.limit)
       ELSE /\ a.books = M
            /\ a.moreResults = 0

\* C26: GetUniqueName(f) returns a path at which nothing exists when it is
\* called; it returns f itself when nothing exists at f.  (That it returns
\* at all is its termination: the filesystem holds finitely many names.)
C26_UniqueNameIsUnused ==
  [][last'.op = "unique" =>
       /\ last'.arg.name \notin disk
       /\ last'.arg.f \notin disk => last'.arg.name = last'.arg.f]_vars

\* GetUniqueName has been called for a path at which a file existed, with
\* the first name it tries taken too.
C26_Witness ==
  /\ last.op = "unique"
  /\ last.found
  /\ last.arg.name = Candidate(last.arg.f, 2)
  /\ Candidate(last.arg.f, 1) \in disk

\* The position of the dot that starts the extension of f: the last dot of
\* the last element of f, Len(f) + 1 when that element has none.
DotOf(f) ==
  LET slashes == {i \in DOMAIN f : f[i] = "/"}
      from == IF slashes = {} THEN 1 ELSE MaxOf(slashes) + 1
      dots == {i \in from..Len(f) : f[i] = "."}
  IN IF dots = {} THEN Len(f) + 1 ELSE MaxOf(dots)

\* f with " (n)" put in front of its extension.
Suffixed(f, n) ==
  SubSeq(f, 1, DotOf(f) - 1) \o <<" ", "(">> \o Itoa(n) \o <<")">>
    \o SubSeq(f, DotOf(f), Len(f))

\* The suffix numbers n >= 1 for which nothing is at Suffixed(f, n).
FreeSuffixes(fs, f) == {n \in 1..(Cardinality(fs) + 1) : Suffixed(f, n) \notin fs}

\* C27: when something is at f, GetUniqueName(f) returns f with " (n)" in
\* front of the extension, n the smallest number from 1 on whose name is
\* unused.  While every file is put in place by a caller of GetUniqueName,
\* the calls for f return the suffixes (1), (2), (3), ... one after the other.
C27_SmallestUnusedSuffix ==
  [][(last'.op = "unique" /\ last'.arg.f \in disk) =>
       LET f == last'.arg.f
       IN /\ last'.arg.name = Suffixed(f, MinOf(FreeSuffixes(disk, f)))
          /\ last.arg.own => last'.arg.name = Suffixed(f, last.arg.given[f] + 1)]_vars

\* The third call for the path with a dot in its directory name, in a run
\* of such calls only, has returned suffix (2).
C27_Witness ==
  /\ last.op = "unique"
  /\ last.arg.own
  /\ last.arg.f = <<"d", ".", "d", "/", "a">>
  /\ last.arg.name = <<"d", ".", "d", "/", "a", " ", "(", "2", ")">>
  /\ last.arg.given[last.arg.f] = 2

\* C28: moveFile(src, dst) renames; when the rename fails it copies src to
\* dst and removes src.  It returns an error exactly when the rename and the
\* copy both fail, and src is then where it was; when src cannot be removed
\* after the copy it returns success with dst in place (and src left).
C28_MoveFallsBackToCopy ==
  [][last'.op = "move" =>
       LET a == last'.arg
           renamed == a.src \in disk /\ ~a.rename
           copied == a.src \in disk /\ a.copy = "none"
       IN /\ renamed => last'.err = "" /\ disk' = (disk \ {a.src}) \cup {a.dst}
          /\ last'.err # "" <=> ~renamed /\ ~copied
          /\ last'.err # "" => (a.src \in disk <=> a.src \in disk')
          /\ (~renamed /\ copied) =>
               /\ a.dst \in disk'
               /\ a.src \in disk' <=> a.remove
               /\ disk' \ {a.src} = (disk \cup {a.dst}) \ {a.src}]_vars

\* A move whose rename failed and whose removal of the source failed has
\* returned success: the file is at both paths.
C28_Witness ==
  /\ last.op = "move"
  /\ last.err = ""
  /\ last.found
  /\ last.arg.rename
  /\ last.arg.remove
  /\ last.arg.src \in disk
  /\ last.arg.dst \in disk

\* C29: an ImportBook with move=false, successful or not, leaves the file
\* at the path it was offered at; a successful ImportBook with move=true
\* leaves the file at its path in the library and no longer at the path it
\* was offered at, unless the source could not be removed after a copy.
C29_CopyKeepsSourceMoveTakesIt ==
  [][last'.op = "import" =>
       /\ ~last'.move => last'.src \in disk'
       /\ (last'.move /\ last'.err = "") =>
            /\ Row(db'.files, last'.fileID).filename \in disk'
            /\ last'.src \notin disk' \/ last'.fail = "remove"]_vars

\* An import that copies has succeeded after an import that moved: the
\* copied file is at the path it was offered at and in the library.
C29_Witness ==
  /\ last.op = "import"
  /\ last.err = ""
  /\ ~last.move
  /\ last.src \in disk
  /\ Row(db.files, last.fileID).filename \in disk
  /\ Cardinality(db.files) = 2
  /\ \E f \in db.files : f.original_filename \notin disk

\* C30: no call of ImportBook, UpdateBook or MergeBooks writes a file to a
\* path at which a file is, also when it relocates several files of a book
\* that render to the same name.
C30_NoFileOverwritten ==
  last.op \in {"import", "update", "merge"} => last.overwritten = {}

\* An update has relocated the two files of book 1, which render to the same
\* name: one is at that name, the other at the name with suffix 1.
C30_Witness ==
  /\ last.op = "update"
  /\ last.err = ""
  /\ \E f \in FilesOf(db, 1), g \in FilesOf(db, 1) :
       /\ f.filename.stem = <<"T2", "A">> /\ f.filename.n = 0
       /\ g.filename = [f.filename EXCEPT !.n = 1]
       /\ {f.filename, g.filename} \subseteq disk

\* The records without a file or with two files a caller may pass.
BadRecords ==
  {ImportRecordOf(title, authors, "S", ks) :
     title \in DeepTitles, authors \in DeepAuthorLists,
     ks \in {<<>>} \cup (Inputs \X Inputs)}

\* C31: in every reachable library, ImportBook of a record that holds no file
\* or more than one file returns the error "Book to import must contain only
\* one file" without opening a transaction, and leaves the store and the
\* files on disk as they were.
C31_ImportRejectsOtherThanOneFile ==
  \A book \in BadRecords, move \in BOOLEAN :
    LET r == ImportBookTx(db, disk, book, move, "none", 0)
    IN /\ r.err = "Book to import must contain only one file"
       /\ ~r.began
       /\ Commit(db, r) = db
       /\ r.disk = disk

\* An import of a record with two files, the first of them not in the library, was
\* refused while the library held a book.
C31_Witness ==
  /\ last.op = "import"
  /\ last.err = "Book to import must contain only one file"
  /\ last.arg.files = 2
  /\ db.books # {}
  /\ \A f \in db.files : f.hash # last.arg.hash

\* C32: MergeBooks of an empty list of IDs returns an error value, without a
\* run-time panic, and leaves the store and the files on disk as they were.
C32_EmptyMergeIsRejected ==
  [][(last'.op = "merge" /\ last'.arg = <<>>) =>
       /\ last'.err \notin {"", "panic"}
       /\ db' = db
       /\ disk' = disk]_vars

\* Whether the step is a DeleteFile of the delete command that returned no
\* error.
CommandDeleted ==
  /\ last.op = "deleteCmd"
  /\ last'.op = "deleteCmd"
  /\ last'.done = last.done + 1
  /\ last'.err = ""

\* C33: the delete command on a book with n >= 1 files calls DeleteFile for
\* each file in turn; after each of the first n-1 calls the book row is still
\* there, and after the n-th the book row, every file row of the book and the
\* book's search document are gone.
C33_DeleteCommandRemovesBook ==
  [][CommandDeleted =>
       LET id == last'.bookID
           n == Len(last'.files)
       IN /\ last'.fileID = last'.files[last'.done].ID
          /\ last'.done < n => id \in Ids(db'.books)
          /\ last'.done = n =>
               /\ id \notin Ids(db'.books)
               /\ FilesOf(db', id) = {}
               /\ \A i \in 1..n : last'.files[i].ID \notin Ids(db'.files)
               /\ DocsOf(db', id) = {}]_vars

\* C34: in every reachable library every file row's book_id is the ID of a
\* book row, every books_authors row names a book row and an author row, and
\* every files_tags row names a file row and a tag row.
C34_ReferentialIntegrity ==
  /\ \A f \in db.files : f.book_id \in Ids(db.books)
  /\ \A l \in db.books_authors :
       l.book_id \in Ids(db.books) /\ l.author_id \in Ids(db.authors)
  /\ \A l \in db.files_tags :
       l.file_id \in Ids(db.files) /\ l.tag_id \in Ids(db.tags)

\* The only file of book 1 was deleted, and with it the book, its author B
\* and its tag y, while book 2 with author A and tag x is left: the links of
\* book 1, of its file, of B and of y went with them.
C34_Witness ==
  /\ last.op = "delete"
  /\ last.err = ""
  /\ Ids(db.books) = {2}
  /\ {a.name : a \in db.authors} = {"A"}
  /\ {t.name : t \in db.tags} = {"x"}
  /\ db.books_authors # {}
  /\ db.files_tags # {}
  /\ \E x \in db.books_fts : x.docid = 1 /\ Has(x.author, "B") /\ Has(x.tags, "y")

\* C35: no two book rows have the same title and the same stored ordered
\* list of author names.
C35_BookIdentityIsUnique ==
  \A b, c \in db.books :
    (b.title = c.title /\ AuthorsOf(db, b.id) = AuthorsOf(db, c.id)) => b = c

\* Whether s is a decimal numeral: an optional sign and one or more digits.
IsNumeral(s) ==
  LET digits == IF s # <<>> /\ s[1] \in {"+", "-"} THEN Tail(s) ELSE s
  IN digits # <<>> /\ \A i \in DOMAIN digits : \E k \in 0..9 : <<digits[i]>> = Itoa(k)

\* C36: of the ID, the name and the error getIDOrFilename returns exactly
\* one is nonzero: the ID for a single numeric argument without the filename
\* flag, the name for no argument with the flag, the error in any other case.
C36_ExactlyOneReturnValueIsNonzero ==
  last.op = "getIDOrFilename" =>
    LET a == last.arg
        single == Len(a.args) = 1 /\ IsNumeral(a.args[1]) /\ a.filename = <<>>
        flag == Len(a.args) = 0 /\ a.filename # <<>>
    IN /\ Cardinality({x \in {"ID", "name", "err"} :
                         \/ x = "ID" /\ a.ID # 0
                         \/ x = "name" /\ a.name # <<>>
                         \/ x = "err" /\ last.err # ""}) = 1
       /\ a.ID # 0 <=> single
       /\ a.name # <<>> <=> flag
       /\ last.err # "" <=> ~single /\ ~flag

\* C37: in every library reached by imports and deletes, books deleted with
\* their last file included, ImportBook of a record whose hash is new and
\* whose title and author list no stored book has succeeds: it creates a book
\* row, under whatever ID the store gives it, and one search document of that
\* book with the record's title and authors.
C37_ImportSucceedsAfterDelete ==
  \A title \in Titles, authors \in DeepAuthorLists, k \in Inputs :
    (/\ InPath(k) \in disk
     /\ \A f \in db.files : f.hash # HashOf(k)
     /\ \A b \in db.books : ~(b.title = title /\ AuthorsOf(db, b.id) = authors)) =>
      LET book == ImportRecord(title, authors, "S", TagsOf(k), k)
          r == ImportBookTx(db, disk, book, TRUE, "none", 0)
          after == Commit(db, r)
      IN /\ r.err = ""
         /\ r.bookID \notin Ids(db.books)
         /\ r.bookID \in Ids(after.books)
         /\ Cardinality(DocsOf(after, r.bookID)) = 1
         /\ \A x \in DocsOf(after, r.bookID) :
              x.title = Str(title) /\ x.author = Join(Strs(authors), <<" & ">>)

\* C38: after a successful UpdateBook the book has a search document, and
\* the title, author and series fields of each of its documents are the book
\* row's title, the book's author names joined by " & ", and the book row's
\* series.
C38_UpdateKeepsDocumentInStep ==
  [][(last'.op = "update" /\ last'.err = "") =>
       LET id == last'.bookID
           b == Row(db'.books, id)
       IN /\ DocsOf(db', id) # {}
          /\ \A x \in DocsOf(db', id) :
               /\ x.title = Str(b.title)
               /\ x.author = Join(Strs(AuthorsOf(db', id)), <<" & ">>)
               /\ x.series = Str(b.series)]_vars

\* C39: an ImportBook that returns an error leaves the file at the path it
\* was offered at, and leaves no new file under the library root that no
\* file row names.
C39_FailedImportLeavesFiles ==
  [][(last'.op = "import" /\ last'.err # "") =>
       /\ last'.src \in disk => last'.src \in disk'
       /\ \A p \in disk' \ disk :
            p.dir = "lib" => \E f \in db'.files : f.filename = p]_vars

\* C40: after a successful UpdateBook that gives a book another author list,
\* no author is left that was linked to that book only and is not in the new
\* list, and every author linked to another book is kept.
C40_UpdateRemovesAuthorsLeftAlone ==
  [][(/\ last'.op = "update"
      /\ last'.err = ""
      /\ AuthorsOf(db, last'.bookID) # last'.arg.authors) =>
       LET id == last'.bookID
           new == {last'.arg.authors[i] : i \in DOMAIN last'.arg.authors}
       IN \A a \in db.authors :
            /\ (BooksOfAuthor(db, a.id) = {id} /\ a.name \notin new) =>
                 a \notin db'.authors
            /\ BooksOfAuthor(db, a.id) \ {id} # {} => a \in db'.authors]_vars

====
